---------------------------- MODULE Spec2Model ----------------------------
(***************************************************************************)
(* Portfolio backend (Flask + Supabase): app.py, the public REST API with  *)
(* bearer-protected mutation, a visit counter and a session login; and     *)
(* admin.py, the session-protected admin application.                      *)
(*                                                                         *)
(* Strings the code parses (the Authorization header, the admin secret)    *)
(* are sequences of one-character strings, so that str.split() is          *)
(* computed.  A JSON object is a function from its keys to its values.     *)
(* The storage backend is one variable, db, a function from table name to  *)
(* the list of its rows in insertion order; one backend call is one atomic *)
(* step that either returns or raises without effect.                      *)
(***************************************************************************)
EXTENDS Integers, Sequences, FiniteSets, TLC

VARIABLES
    db,             \* table name -> sequence of rows [id, data]
    next_id,        \* table name -> the id the backend assigns next
    session,        \* app.py: session id -> set of keys stored in the session
    admin_session,  \* admin.py: session id -> set of keys stored in the session
    proc,           \* worker -> position inside increment_visits
    ver,            \* history: number of writes made to table visitas
    log,            \* history: the completed POST /api/visitas, oldest first
    seen,           \* history: the largest total a GET /api/visitas returned
    logged_out,     \* history: application -> sessions that logged out of a
                    \* login and have not logged in since
    last            \* the request the step just taken answered, and its response

vars == <<db, next_id, session, admin_session, proc, ver, log, seen, logged_out,
          last>>

---------------------------------------------------------------------------
\* Bounds of the model

MaxId == 2          \* ids the backend hands out per content table
MaxSessions == 1    \* browser sessions per application
MaxProcs == 2       \* workers handling requests concurrently
MaxWrites == 6      \* writes to table visitas
MaxEffort == 2      \* Spec: rows, session flags and requests in flight at once

---------------------------------------------------------------------------
\* Strings and configuration

Bearer == <<"B", "e", "a", "r", "e", "r">>
Basic == <<"B", "a", "s", "i", "c">>
Wrong == <<"w", "r", "o", "n", "g">>

\* app.py:26 and admin.py:26, the default of the environment variable
ADMIN_PASSWORD == <<"a", "d", "m", "i", "n", "1", "2", "3">>

Whitespace == {" ", "\t"}

Tables == {"projetos", "certificados", "visitas"}
Ids == 1..(MaxId + 1)
Sessions == 1..MaxSessions
Procs == 1..MaxProcs

\* datetime.utcnow().isoformat(): some instant of the server's clock
Timestamps == {"t1"}

\* str.split() without arguments: the maximal runs of non-whitespace
RECURSIVE split_from(_, _, _)
split_from(s, cur, parts) ==
    IF s = <<>>
    THEN IF cur = <<>> THEN parts ELSE Append(parts, cur)
    ELSE IF Head(s) \in Whitespace
         THEN split_from(Tail(s), <<>>,
                         IF cur = <<>> THEN parts ELSE Append(parts, cur))
         ELSE split_from(Tail(s), Append(cur, Head(s)), parts)

split(s) == split_from(s, <<>>, <<>>)

---------------------------------------------------------------------------
\* Requests

EmptyDict == [k \in {} |-> ""]

\* request.headers.get("Authorization"): None when the header is absent
NoHeader == [present |-> FALSE, value |-> <<>>]
Header(v) == [present |-> TRUE, value |-> v]

\* The header of the tests, the same tokens with other whitespace between
\* them, a wrong secret, a wrong scheme, one token, three tokens, the empty string, none.
GoodHeader == Header(Bearer \o <<" ">> \o ADMIN_PASSWORD)
Headers ==
    { NoHeader,
      GoodHeader,
      Header(Bearer \o <<" ", "\t">> \o ADMIN_PASSWORD),
      Header(Bearer \o <<" ">> \o Wrong),
      Header(Basic \o <<" ">> \o ADMIN_PASSWORD),
      Header(ADMIN_PASSWORD),
      Header(Bearer \o <<" ">> \o ADMIN_PASSWORD \o <<" ">> \o Wrong),
      Header(<<>>) }

\* request.get_json(): a JSON object, or no object at all
NoJson == [is_object |-> FALSE, obj |-> EmptyDict]
Json(d) == [is_object |-> TRUE, obj |-> d]

\* Bodies of POST /api/projetos: none, one without all the required fields,
\* one with them, an extra field and a created_at of the client's
ProjectPayloads ==
    { NoJson,
      Json([titulo |-> "a", descricao |-> "a"]),
      Json([titulo |-> "a", descricao |-> "a", tecnologias |-> "a",
            link |-> "x", created_at |-> "c0"]) }

\* Bodies of PUT /api/projetos/<id>
ProjectPatches == {NoJson, Json([titulo |-> "b"])}

\* Bodies of POST /api/certificados
CertificatePayloads ==
    { NoJson,
      Json([nome |-> "a", origem |-> "FIAP"]),
      Json([nome |-> "a", instituicao |-> "a", data_conclusao |-> "a",
            origem |-> "FIAP", created_at |-> "c0"]) }

\* Bodies of PUT /api/certificados/<id>
CertificatePatches == {NoJson, Json([origem |-> "X"])}

\* request.form.get("password"): None when the field is absent
NoPassword == [present |-> FALSE, value |-> <<>>]
Password(v) == [present |-> TRUE, value |-> v]
Passwords == {NoPassword, Password(Wrong), Password(ADMIN_PASSWORD)}

\* request.args.get("origem"): None when the query has no such parameter
NoArg == [present |-> FALSE, value |-> ""]
Arg(v) == [present |-> TRUE, value |-> v]
\* No parameter, ?origem=, ?origem=FIAP, ?origem=X
Origens == {NoArg, Arg(""), Arg("FIAP"), Arg("X")}

NoReq ==
    [app |-> "", handler |-> "", method |-> "", hdr |-> NoHeader,
     payload |-> NoJson, id |-> 0, sid |-> 0, password |-> NoPassword,
     origem |-> NoArg, worker |-> 0]

---------------------------------------------------------------------------
\* Responses

NoBody == [kind |-> "none", keys |-> {}, error |-> "", rows |-> <<>>, total |-> 0,
           location |-> ""]

\* jsonify({"error": msg})
JsonError(msg) == [NoBody EXCEPT !.kind = "json_object", !.keys = {"error"},
                                 !.error = msg]
\* jsonify({"message": ...})
JsonMessage == [NoBody EXCEPT !.kind = "json_object", !.keys = {"message"}]
\* jsonify(response.data)
JsonRows(rows) == [NoBody EXCEPT !.kind = "json_array", !.rows = rows]
\* jsonify(response.data[0])
JsonRow(row) == [NoBody EXCEPT !.kind = "json_object",
                               !.keys = DOMAIN row.data \cup {"id"},
                               !.rows = <<row>>]
\* jsonify({"total": n})
JsonTotal(n) == [NoBody EXCEPT !.kind = "json_object", !.keys = {"total"},
                               !.total = n]
\* render_template(...)
Html == [NoBody EXCEPT !.kind = "html"]
\* redirect(url_for(...))
Redirect(endpoint) == [NoBody EXCEPT !.kind = "redirect", !.location = endpoint]

Response(status, body) == [status |-> status, body |-> body]

\* What a step leaves in `last`: the request, the response, whether the
\* wrapped handler ran, how many backend calls it made, and whether one of
\* them (or the handler's own code) raised.
Handled(req, resp, invoked, calls, raised) ==
    [req |-> req, resp |-> resp, invoked |-> invoked, calls |-> calls,
     raised |-> raised]

\* No request is being answered
Quiet == Handled(NoReq, Response(0, NoBody), FALSE, 0, FALSE)

\* A worker outside increment_visits
Idle == [pc |-> "idle", data |-> <<>>, rver |-> 0, seen |-> 0]

Init ==
    /\ db = [t \in Tables |-> <<>>]
    /\ next_id = [t \in Tables |-> 1]
    /\ session = [s \in Sessions |-> {}]
    /\ admin_session = [s \in Sessions |-> {}]
    /\ proc = [p \in Procs |-> Idle]
    /\ ver = 0
    /\ log = <<>>
    /\ seen = 0
    /\ logged_out = [a \in {"app", "admin"} |-> {}]
    /\ last = Quiet

---------------------------------------------------------------------------
\* The storage backend, as the handlers call it

\* .select("*").eq("id", id).execute().data
select_eq_id(t, id) ==
    LET Match(r) == r.id = id IN SelectSeq(db[t], Match)

select_any_origem(t, v) == db[t]

\* .select("*").eq("origem", v).execute().data
select_eq_origem(t, v) ==
    LET Match(r) == "origem" \in DOMAIN r.data /\ r.data["origem"] = v
    IN SelectSeq(db[t], Match)

Merge_keeping(d, u) ==
    [k \in DOMAIN d \cup DOMAIN u |-> IF k \in DOMAIN d THEN d[k] ELSE u[k]]

\* dict.update: the keys of u replace or extend those of d
Merge(d, u) ==
    [k \in DOMAIN d \cup DOMAIN u |-> IF k \in DOMAIN u THEN u[k] ELSE d[k]]

\* .insert(data): the backend assigns the id
inserted(t, data) == Append(db[t], [id |-> next_id[t], data |-> data])

upserted(t, id, data) ==
    LET Match(r) == r.id = id IN
    IF SelectSeq(db[t], Match) = <<>>
    THEN Append(db[t], [id |-> id, data |-> data])
    ELSE [i \in 1..Len(db[t]) |->
            IF db[t][i].id = id
            THEN [db[t][i] EXCEPT !.data = Merge(db[t][i].data, data)]
            ELSE db[t][i]]

\* .update(data).eq("id", id): the rows with that id take the new columns
updated(t, id, data) ==
    [i \in 1..Len(db[t]) |->
        IF db[t][i].id = id
        THEN [db[t][i] EXCEPT !.data = Merge(db[t][i].data, data)]
        ELSE db[t][i]]

deleted_through(t, id) ==
    LET Keep(r) == r.id > id IN SelectSeq(db[t], Keep)

\* .delete().eq("id", id)
deleted(t, id) ==
    LET Keep(r) == r.id # id IN SelectSeq(db[t], Keep)

---------------------------------------------------------------------------
\* app.py: require_auth

require_auth_any_secret(auth_header) ==
    IF ~auth_header.present \/ auth_header.value = <<>>
    THEN [ok |-> FALSE,
          resp |-> Response(401, JsonError("Missing Authorization header"))]
    ELSE LET parts == split(auth_header.value) IN
         IF Len(parts) # 2 \/ parts[1] # Bearer
         THEN [ok |-> FALSE,
               resp |-> Response(401, JsonError("Invalid Authorization header"))]
         ELSE [ok |-> TRUE, resp |-> Response(0, NoBody)]

require_auth_no_scheme(auth_header) ==
    IF ~auth_header.present \/ auth_header.value = <<>>
    THEN [ok |-> FALSE,
          resp |-> Response(401, JsonError("Missing Authorization header"))]
    ELSE LET parts == split(auth_header.value) IN
         IF Len(parts) # 2
         THEN [ok |-> FALSE,
               resp |-> Response(401, JsonError("Invalid Authorization header"))]
         ELSE IF parts[2] # ADMIN_PASSWORD
              THEN [ok |-> FALSE, resp |-> Response(401, JsonError("Unauthorized"))]
              ELSE [ok |-> TRUE, resp |-> Response(0, NoBody)]

\* The decorator's verdict on a header: reject with a 401, or call f.
require_auth(auth_header) ==
    IF ~auth_header.present \/ auth_header.value = <<>>
    THEN [ok |-> FALSE,
          resp |-> Response(401, JsonError("Missing Authorization header"))]
    ELSE LET parts == split(auth_header.value) IN
         IF Len(parts) # 2 \/ parts[1] # Bearer
         THEN [ok |-> FALSE,
               resp |-> Response(401, JsonError("Invalid Authorization header"))]
         ELSE IF parts[2] # ADMIN_PASSWORD
              THEN [ok |-> FALSE, resp |-> Response(401, JsonError("Unauthorized"))]
              ELSE [ok |-> TRUE, resp |-> Response(0, NoBody)]

\* A request the decorator turned away: f is not called, nothing changes.
Rejected(req, resp) ==
    /\ last' = Handled(req, resp, FALSE, 0, FALSE)
    /\ UNCHANGED <<db, next_id>>

Raised_swallowed(req, calls) ==
    /\ last' = Handled(req, Response(200, JsonMessage), TRUE, calls, TRUE)
    /\ UNCHANGED <<db, next_id>>

\* except Exception as e: return jsonify({"error": str(e)}), 500
Raised(req, calls) ==
    /\ last' = Handled(req, Response(500, JsonError("exception")), TRUE, calls, TRUE)
    /\ UNCHANGED <<db, next_id>>

\* A handler that returned without writing
Returned(req, resp, calls) ==
    /\ last' = Handled(req, resp, TRUE, calls, FALSE)
    /\ UNCHANGED <<db, next_id>>

Others == <<session, admin_session, logged_out, proc, ver, log, seen>>

---------------------------------------------------------------------------
\* app.py: projects and certificates

\* GET /health
health_check ==
    /\ Returned([NoReq EXCEPT !.app = "app", !.handler = "health_check",
                              !.method = "GET"],
                Response(200, [NoBody EXCEPT !.kind = "json_object",
                                             !.keys = {"status", "message"}]), 0)
    /\ UNCHANGED Others

\* The body of get_projects
list_records(t, req, fail) ==
    IF fail THEN Raised(req, 1)
    ELSE Returned(req, Response(200, JsonRows(db[t])), 1)

create_record_any(t, required_fields, req, now, fail) ==
    LET data == req.payload.obj IN
    IF ~req.payload.is_object
    THEN Raised(req, 0)
    ELSE IF ~(\E field \in required_fields : field \in DOMAIN data)
    THEN Returned(req, Response(400, JsonError("Missing required fields")), 0)
    ELSE IF fail
    THEN Raised(req, 1)
    ELSE LET stamped == Merge(data, [created_at |-> now])
             row == [id |-> next_id[t], data |-> stamped]
         IN /\ next_id[t] <= MaxId
            /\ db' = [db EXCEPT ![t] = inserted(t, stamped)]
            /\ next_id' = [next_id EXCEPT ![t] = @ + 1]
            /\ last' = Handled(req, Response(201, JsonRows(<<row>>)), TRUE, 1, FALSE)

\* The body of create_project and of create_certificate
create_record(t, required_fields, req, now, fail) ==
    LET data == req.payload.obj IN
    IF ~req.payload.is_object
    THEN Raised(req, 0)      \* `field in data` on None
    ELSE IF ~(\A field \in required_fields : field \in DOMAIN data)
    THEN Returned(req, Response(400, JsonError("Missing required fields")), 0)
    ELSE IF fail
    THEN Raised(req, 1)
    ELSE LET stamped == Merge(data, [created_at |-> now])
             row == [id |-> next_id[t], data |-> stamped]
         IN /\ next_id[t] <= MaxId
            /\ db' = [db EXCEPT ![t] = inserted(t, stamped)]
            /\ next_id' = [next_id EXCEPT ![t] = @ + 1]
            /\ last' = Handled(req, Response(201, JsonRows(<<row>>)), TRUE, 1, FALSE)

\* The body of get_project and of get_certificate
get_record(t, req, fail) ==
    LET data == select_eq_id(t, req.id) IN
    IF fail THEN Raised(req, 1)
    ELSE IF data = <<>>
    THEN Returned(req, Response(404, JsonError("not found")), 1)
    ELSE Returned(req, Response(200, JsonRow(data[1])), 1)

\* The body of update_project and of update_certificate
update_record(t, req, now, fail) ==
    IF ~req.payload.is_object
    THEN Raised(req, 0)      \* data["updated_at"] = ... on None
    ELSE IF fail
    THEN Raised(req, 1)
    ELSE LET stamped == Merge(req.payload.obj, [updated_at |-> now])
             after == updated(t, req.id, stamped)
             Match(r) == r.id = req.id
             data == SelectSeq(after, Match)
         IN IF data = <<>>
            THEN Returned(req, Response(404, JsonError("not found")), 1)
            ELSE /\ db' = [db EXCEPT ![t] = after]
                 /\ UNCHANGED next_id
                 /\ last' = Handled(req, Response(200, JsonRow(data[1])), TRUE, 1, FALSE)

\* The body of delete_project and of delete_certificate
delete_record(t, req, fail) ==
    IF fail THEN Raised(req, 1)
    ELSE /\ db' = [db EXCEPT ![t] = deleted(t, req.id)]
         /\ UNCHANGED next_id
         /\ last' = Handled(req, Response(200, JsonMessage), TRUE, 1, FALSE)

AppReq(handler, method) ==
    [NoReq EXCEPT !.app = "app", !.handler = handler, !.method = method]

\* The decorator applied to each header a request may carry
Auth == [h \in Headers |-> require_auth(h)]

ProjectFields == {"titulo", "descricao", "tecnologias"}
CertificateFields == {"nome", "instituicao", "data_conclusao"}

\* GET /api/projetos
get_projects ==
    /\ \E fail \in BOOLEAN :
         list_records("projetos", AppReq("get_projects", "GET"), fail)
    /\ UNCHANGED Others

\* POST /api/projetos
create_project ==
    /\ \E sid \in Sessions, h \in Headers, p \in ProjectPayloads :
         LET req == [AppReq("create_project", "POST") EXCEPT !.sid = sid,
                        !.hdr = h, !.payload = p]
         IN IF ~Auth[h].ok THEN Rejected(req, Auth[h].resp)
            ELSE \E now \in Timestamps, fail \in BOOLEAN :
                    create_record("projetos", ProjectFields, req, now, fail)
    /\ UNCHANGED Others

\* GET /api/projetos/<id>
get_project ==
    /\ \E id \in Ids, fail \in BOOLEAN :
         get_record("projetos", [AppReq("get_project", "GET") EXCEPT !.id = id], fail)
    /\ UNCHANGED Others

\* PUT /api/projetos/<id>
update_project ==
    /\ \E sid \in Sessions, h \in Headers, id \in Ids, p \in ProjectPatches :
         LET req == [AppReq("update_project", "PUT") EXCEPT !.sid = sid,
                        !.hdr = h, !.payload = p, !.id = id]
         IN IF ~Auth[h].ok THEN Rejected(req, Auth[h].resp)
            ELSE \E now \in Timestamps, fail \in BOOLEAN :
                    update_record("projetos", req, now, fail)
    /\ UNCHANGED Others

\* DELETE /api/projetos/<id>
delete_project ==
    /\ \E sid \in Sessions, h \in Headers, id \in Ids :
         LET req == [AppReq("delete_project", "DELETE") EXCEPT !.sid = sid,
                        !.hdr = h, !.id = id]
         IN IF ~Auth[h].ok THEN Rejected(req, Auth[h].resp)
            ELSE \E fail \in BOOLEAN : delete_record("projetos", req, fail)
    /\ UNCHANGED Others

\* GET /api/certificados
get_certificates ==
    /\ \E origem \in Origens, fail \in BOOLEAN :
         LET req == [AppReq("get_certificates", "GET") EXCEPT !.origem = origem]
         IN IF fail THEN Raised(req, 1)
            ELSE IF origem.present /\ origem.value # ""      \* `if origem:`
            THEN Returned(req, Response(200,
                     JsonRows(select_eq_origem("certificados", origem.value))), 1)
            ELSE Returned(req, Response(200, JsonRows(db["certificados"])), 1)
    /\ UNCHANGED Others

\* POST /api/certificados
create_certificate ==
    /\ \E sid \in Sessions, h \in Headers, p \in CertificatePayloads :
         LET req == [AppReq("create_certificate", "POST") EXCEPT !.sid = sid,
                        !.hdr = h, !.payload = p]
         IN IF ~Auth[h].ok THEN Rejected(req, Auth[h].resp)
            ELSE \E now \in Timestamps, fail \in BOOLEAN :
                    create_record("certificados", CertificateFields, req, now, fail)
    /\ UNCHANGED Others

\* GET /api/certificados/<id>
get_certificate ==
    /\ \E id \in Ids, fail \in BOOLEAN :
         get_record("certificados",
                    [AppReq("get_certificate", "GET") EXCEPT !.id = id], fail)
    /\ UNCHANGED Others

\* PUT /api/certificados/<id>
update_certificate ==
    /\ \E sid \in Sessions, h \in Headers, id \in Ids, p \in CertificatePatches :
         LET req == [AppReq("update_certificate", "PUT") EXCEPT !.sid = sid,
                        !.hdr = h, !.payload = p, !.id = id]
         IN IF ~Auth[h].ok THEN Rejected(req, Auth[h].resp)
            ELSE \E now \in Timestamps, fail \in BOOLEAN :
                    update_record("certificados", req, now, fail)
    /\ UNCHANGED Others

\* DELETE /api/certificados/<id>
delete_certificate ==
    /\ \E sid \in Sessions, h \in Headers, id \in Ids :
         LET req == [AppReq("delete_certificate", "DELETE") EXCEPT !.sid = sid,
                        !.hdr = h, !.id = id]
         IN IF ~Auth[h].ok THEN Rejected(req, Auth[h].resp)
            ELSE \E fail \in BOOLEAN : delete_record("certificados", req, fail)
    /\ UNCHANGED Others

---------------------------------------------------------------------------
\* app.py: the visit counter

Max(a, b) == IF a >= b THEN a ELSE b

\* Workers between the read and the write of increment_visits
InFlight == Cardinality({p \in Procs : proc[p].pc = "read"})

\* What get_visits answers: the total of the first row, 0 without a row
visit_total(data) == IF data # <<>> THEN data[1].data.total ELSE 0

\* GET /api/visitas
get_visits ==
    /\ \E fail \in BOOLEAN :
         LET req == AppReq("get_visits", "GET")
             data == db["visitas"]
         IN IF fail
            THEN Raised(req, 1) /\ UNCHANGED seen
            ELSE /\ Returned(req, Response(200, JsonTotal(visit_total(data))), 1)
                 /\ seen' = Max(seen, visit_total(data))
    /\ UNCHANGED <<session, admin_session, logged_out, proc, ver, log>>

\* POST /api/visitas, first backend call: select("*")
increment_visits_read(p) ==
    /\ proc[p].pc = "idle"
    /\ ver + InFlight < MaxWrites
    /\ \E fail \in BOOLEAN :
         IF fail
         THEN /\ Raised([AppReq("increment_visits", "POST") EXCEPT !.worker = p], 1)
              /\ UNCHANGED proc
         ELSE /\ proc' = [proc EXCEPT ![p] = [pc |-> "read", data |-> db["visitas"],
                                              rver |-> ver, seen |-> seen]]
              /\ UNCHANGED <<db, next_id, last>>
    /\ UNCHANGED <<session, admin_session, logged_out, ver, log, seen>>

\* The history entry of a POST /api/visitas that answered resp
Entry(p, resp) ==
    [worker |-> p, rver |-> proc[p].rver, wver |-> ver + 1,
     had_row |-> proc[p].data # <<>>, before |-> visit_total(proc[p].data),
     seen |-> proc[p].seen, status |-> resp.status, total |-> resp.body.total]

Remember(entry) ==
    IF Len(log) < 2 THEN Append(log, entry) ELSE Append(Tail(log), entry)

total_updated_stale(id, new_total) ==
    [i \in 1..Len(db["visitas"]) |->
        IF db["visitas"][i].id = id
        THEN [db["visitas"][i] EXCEPT !.data = [total |-> new_total - 1]]
        ELSE db["visitas"][i]]

\* .update({"total": new_total}).eq("id", id)
total_updated(id, new_total) ==
    [i \in 1..Len(db["visitas"]) |->
        IF db["visitas"][i].id = id
        THEN [db["visitas"][i] EXCEPT !.data = [total |-> new_total]]
        ELSE db["visitas"][i]]

response_data_fresh(p) == db["visitas"]

\* `response`, the rows the first call returned, as the second call uses them
response_data(p) == proc[p].data

\* POST /api/visitas, second backend call: update of the row read, or insert
increment_visits_write(p) ==
    /\ proc[p].pc = "read"
    /\ proc' = [proc EXCEPT ![p] = Idle]
    /\ \E fail \in BOOLEAN :
         LET req == [AppReq("increment_visits", "POST") EXCEPT !.worker = p]
             data == response_data(p)
         IN IF fail
            THEN Raised(req, 2) /\ UNCHANGED <<ver, log>>
            ELSE IF data # <<>>
            THEN LET current_total == data[1].data.total
                     new_total == current_total + 1
                     resp == Response(200, JsonTotal(new_total))
                 IN /\ db' = [db EXCEPT !["visitas"] = total_updated(data[1].id, new_total)]
                    /\ UNCHANGED next_id
                    /\ last' = Handled(req, resp, TRUE, 2, FALSE)
                    /\ log' = Remember(Entry(p, resp))
                    /\ ver' = ver + 1
            ELSE LET resp == Response(201, JsonTotal(1))
                 IN /\ db' = [db EXCEPT !["visitas"] = inserted("visitas", [total |-> 1])]
                    /\ next_id' = [next_id EXCEPT !["visitas"] = @ + 1]
                    /\ last' = Handled(req, resp, TRUE, 2, FALSE)
                    /\ log' = Remember(Entry(p, resp))
                    /\ ver' = ver + 1
    /\ UNCHANGED <<session, admin_session, logged_out, seen>>

---------------------------------------------------------------------------
\* app.py: error handler, login page, dashboard, logout

Stores == <<db, next_id, proc, ver, log, seen>>

not_found_default ==
    /\ last' = Handled(AppReq("not_found", "GET"), Response(404, Html), FALSE, 0, FALSE)
    /\ UNCHANGED <<Stores, session, admin_session, logged_out>>

\* @app.errorhandler(404): a path no route matches
not_found ==
    /\ last' = Handled(AppReq("not_found", "GET"),
                       Response(404, JsonError("Endpoint not found")), FALSE, 0, FALSE)
    /\ UNCHANGED <<Stores, session, admin_session, logged_out>>

login_ok_any(password) == password.present /\ password.value # <<>>

\* `password and password == ADMIN_PASSWORD`
login_ok(password) ==
    password.present /\ password.value # <<>> /\ password.value = ADMIN_PASSWORD

\* GET and POST /; login_html: templates/login.html exists and renders
index ==
    /\ \E sid \in Sessions, method \in {"GET", "POST"}, password \in Passwords,
          login_html \in BOOLEAN :
         LET req == [AppReq("index", method) EXCEPT !.sid = sid,
                        !.password = IF method = "POST" THEN password ELSE NoPassword]
         IN IF method = "POST"
            THEN IF login_ok(password)
                 THEN /\ session' = [session EXCEPT ![sid] = @ \cup {"logged_in"}]
                      /\ logged_out' = [logged_out EXCEPT !["app"] = @ \ {sid}]
                      /\ last' = Handled(req, Response(302, Redirect("admin_dashboard")),
                                         TRUE, 0, FALSE)
                 ELSE /\ UNCHANGED <<session, logged_out>>
                      /\ last' = Handled(req,
                                    IF login_html THEN Response(200, Html)
                                    ELSE Response(401, JsonError("Senha invalida")),
                                    TRUE, 0, FALSE)
            ELSE /\ UNCHANGED <<session, logged_out>>
                 /\ last' = Handled(req,
                               IF login_html THEN Response(200, Html)
                               ELSE Response(200, [NoBody EXCEPT !.kind = "json_object",
                                                      !.keys = {"message", "endpoints"}]),
                               TRUE, 0, FALSE)
    /\ UNCHANGED <<Stores, admin_session>>

\* GET /admin; invoked: the dashboard was served
admin_dashboard ==
    /\ \E sid \in Sessions, dashboard_html \in BOOLEAN :
         LET req == [AppReq("admin_dashboard", "GET") EXCEPT !.sid = sid]
         IN IF "logged_in" \in session[sid]
            THEN last' = Handled(req,
                            IF dashboard_html THEN Response(200, Html)
                            ELSE Response(200, JsonMessage),
                            TRUE, 0, FALSE)
            ELSE last' = Handled(req, Response(302, Redirect("index")), FALSE, 0, FALSE)
    /\ UNCHANGED <<Stores, session, admin_session, logged_out>>

admin_logout_kept ==
    /\ \E sid \in Sessions :
         /\ session' = session
         /\ logged_out' = [logged_out EXCEPT !["app"] =
                              IF "logged_in" \in session[sid] THEN @ \cup {sid} ELSE @]
         /\ last' = Handled([AppReq("admin_logout", "POST") EXCEPT !.sid = sid],
                            Response(302, Redirect("index")), TRUE, 0, FALSE)
    /\ UNCHANGED <<Stores, admin_session>>

\* POST /admin/logout: session.pop("logged_in", None)
admin_logout ==
    /\ \E sid \in Sessions :
         /\ session' = [session EXCEPT ![sid] = @ \ {"logged_in"}]
         /\ logged_out' = [logged_out EXCEPT !["app"] =
                              IF "logged_in" \in session[sid] THEN @ \cup {sid} ELSE @]
         /\ last' = Handled([AppReq("admin_logout", "POST") EXCEPT !.sid = sid],
                            Response(302, Redirect("index")), TRUE, 0, FALSE)
    /\ UNCHANGED <<Stores, admin_session>>

---------------------------------------------------------------------------
\* admin.py: login_required, login, logout, dashboard

AdminReq(handler, method) ==
    [NoReq EXCEPT !.app = "admin", !.handler = handler, !.method = method]

\* The decorator's test: is the key in the session?
login_required(sid) == "authenticated" \in admin_session[sid]

\* render_template in admin.py is not guarded: a template that does not
\* render ends in the 500 handler (@app.errorhandler(500))
Rendered(html) ==
    IF html THEN Response(200, Html)
    ELSE Response(500, JsonError("Internal server error"))

\* GET and POST /admin/login
login ==
    /\ \E sid \in Sessions, method \in {"GET", "POST"}, password \in Passwords,
          login_html \in BOOLEAN :
         LET req == [AppReq("login", method) EXCEPT !.app = "admin", !.sid = sid,
                        !.password = IF method = "POST" THEN password ELSE NoPassword]
         IN IF method = "POST" /\ password.present /\ password.value = ADMIN_PASSWORD
            THEN /\ admin_session' = [admin_session EXCEPT
                                         ![sid] = @ \cup {"authenticated"}]
                 /\ logged_out' = [logged_out EXCEPT !["admin"] = @ \ {sid}]
                 /\ last' = Handled(req, Response(302, Redirect("admin_dashboard")),
                                    TRUE, 0, FALSE)
            ELSE /\ UNCHANGED <<admin_session, logged_out>>
                 /\ last' = Handled(req, Rendered(login_html), TRUE, 0, ~login_html)
    /\ UNCHANGED <<Stores, session>>

\* POST /admin/logout of admin.py
logout ==
    /\ \E sid \in Sessions :
         /\ admin_session' = [admin_session EXCEPT ![sid] = {}]
         /\ logged_out' = [logged_out EXCEPT !["admin"] =
                              IF login_required(sid) THEN @ \cup {sid} ELSE @]
         /\ last' = Handled([AdminReq("logout", "POST") EXCEPT !.sid = sid],
                            Response(302, Redirect("login")), TRUE, 0, FALSE)
    /\ UNCHANGED <<Stores, session>>

\* GET /admin of admin.py
admin_admin_dashboard ==
    /\ \E sid \in Sessions, dashboard_html \in BOOLEAN :
         LET req == [AdminReq("admin_dashboard", "GET") EXCEPT !.sid = sid]
         IN IF ~login_required(sid)
            THEN last' = Handled(req, Response(302, Redirect("login")), FALSE, 0, FALSE)
            ELSE last' = Handled(req, Rendered(dashboard_html), TRUE, 0, ~dashboard_html)
    /\ UNCHANGED <<Stores, session, admin_session, logged_out>>

---------------------------------------------------------------------------
\* Specifications

\* The response has left: the server waits for the next request
sent ==
    /\ last # Quiet
    /\ last' = Quiet
    /\ UNCHANGED <<Stores, session, admin_session, logged_out>>

\* Rows stored, sessions that have logged in and increments in flight
Effort ==
    (next_id["projetos"] - 1) + (next_id["certificados"] - 1) + ver + InFlight
    + Cardinality({s \in Sessions : session[s] # {} \/ s \in logged_out["app"]})
    + Cardinality({s \in Sessions :
                     admin_session[s] # {} \/ s \in logged_out["admin"]})

\* One step of a handler, taken once the previous response has left
Serve(A) == last = Quiet /\ A

Within(A) == Serve(A) /\ Effort' <= MaxEffort

\* Every handler of both applications, in the states of effort MaxEffort or less
Next ==
    \/ Within(health_check)
    \/ Within(get_projects)
    \/ Within(create_project)
    \/ Within(get_project)
    \/ Within(update_project)
    \/ Within(delete_project)
    \/ Within(get_certificates)
    \/ Within(create_certificate)
    \/ Within(get_certificate)
    \/ Within(update_certificate)
    \/ Within(delete_certificate)
    \/ Within(get_visits)
    \/ \E p \in Procs : Within(increment_visits_read(p))
    \/ \E p \in Procs : Within(increment_visits_write(p))
    \/ Within(not_found)
    \/ Within(index)
    \/ Within(admin_dashboard)
    \/ Within(admin_logout)
    \/ Within(login)
    \/ Within(logout)
    \/ Within(admin_admin_dashboard)
    \/ sent

Spec == Init /\ [][Next]_vars

\* The visit counter alone, up to MaxWrites writes
NextVisits ==
    \/ Serve(get_visits)
    \/ \E p \in Procs : Serve(increment_visits_read(p))
    \/ \E p \in Procs : Serve(increment_visits_write(p))
    \/ sent

SpecVisits == Init /\ [][NextVisits]_vars

---------------------------------------------------------------------------
\* Vocabulary of the properties

Creates == {"create_project", "create_certificate"}
Updates == {"update_project", "update_certificate"}
Deletes == {"delete_project", "delete_certificate"}
Gets == {"get_project", "get_certificate"}
Mutating == Creates \cup Updates \cup Deletes

TableOf(handler) ==
    IF handler \in {"create_project", "update_project", "delete_project",
                    "get_project", "get_projects"}
    THEN "projetos" ELSE "certificados"

RequiredOf(handler) ==
    IF handler = "create_project" THEN ProjectFields ELSE CertificateFields

\* The header splits on whitespace into the two tokens Bearer and the secret
Matching(h) == h.present /\ split(h.value) = <<Bearer, ADMIN_PASSWORD>>

\* The header is missing, is not two tokens, does not start with Bearer, or
\* carries another secret
BadCredential(h) ==
    \/ ~h.present
    \/ Len(split(h.value)) # 2
    \/ split(h.value)[1] # Bearer
    \/ split(h.value)[2] # ADMIN_PASSWORD

\* A JSON object body without one of the required fields of the resource
MissingField(req) ==
    /\ req.payload.is_object
    /\ \E f \in RequiredOf(req.handler) : f \notin DOMAIN req.payload.obj

\* No row of table t has this id
Absent(t, id) == \A i \in 1..Len(db[t]) : db[t][i].id # id

IsJsonError(l) ==
    /\ l.resp.body.kind = "json_object"
    /\ "error" \in l.resp.body.keys
    /\ l.resp.status \notin 200..299

ContentChanged ==
    \/ db'["projetos"] # db["projetos"]
    \/ db'["certificados"] # db["certificados"]

---------------------------------------------------------------------------
\* C1: a request to a mutating endpoint of app.py whose Authorization header
\* is missing, is not exactly two whitespace-separated tokens, does not start
\* with the token Bearer or carries another secret is answered 401, and the
\* wrapped handler is not invoked.
C1_Unauthorized ==
    (last.req.app = "app" /\ last.req.handler \in Mutating
        /\ BadCredential(last.req.hdr))
    => (last.resp.status = 401 /\ ~last.invoked /\ last.calls = 0)

C1_Witness ==
    /\ last.req.handler = "update_certificate"
    /\ last.req.hdr = Header(Bearer \o <<" ">> \o Wrong)
    /\ last.resp.status = 401
    /\ db["certificados"] # <<>>

\* C2 as stated: the content tables change only in a step that handles a
\* request whose Authorization header is exactly "Bearer <admin secret>".
C2_ExactHeader ==
    [][ContentChanged => last'.req.hdr = GoodHeader]_vars

\* C2, amended: the content tables change only in a step of a mutating
\* handler of app.py whose Authorization header splits on whitespace into
\* exactly the tokens Bearer and the admin secret; every other request, GET
\* requests included, leaves both tables unchanged.
C2_OnlyWithCredential ==
    [][ContentChanged =>
          /\ last'.req.app = "app"
          /\ last'.req.handler \in Mutating
          /\ last'.req.method # "GET"
          /\ Matching(last'.req.hdr)]_vars

C2_Witness ==
    /\ last.req.handler = "create_project"
    /\ last.resp.status = 201
    /\ last.req.hdr # GoodHeader
    /\ db["projetos"] # <<>>

\* C3 as stated: every create request whose payload lacks a required field
\* is answered 400 and persists nothing.
C3_Always400 ==
    [][(last'.req.handler \in Creates /\ MissingField(last'.req))
          => (last'.resp.status = 400 /\ db' = db)]_vars

\* C3, amended: a create request whose JSON object payload lacks a required
\* field persists nothing; it is answered 400 with an error field when it
\* carries the matching credential, and 401 otherwise.
C3_MissingFields ==
    [][(last'.req.handler \in Creates /\ MissingField(last'.req))
          => /\ db' = db
             /\ next_id' = next_id
             /\ IsJsonError(last')
             /\ last'.resp.status = IF Matching(last'.req.hdr) THEN 400 ELSE 401]_vars

C3_Witness ==
    /\ last.req.handler = "create_certificate"
    /\ Matching(last.req.hdr)
    /\ MissingField(last.req)
    /\ last.resp.status = 400

---------------------------------------------------------------------------
\* The last two completed increments ran one after the other: no write to
\* the table fell between the read and the write of either, nor between them
Sequential(e1, e2) ==
    /\ e1.wver = e1.rver + 1
    /\ e2.rver = e1.wver
    /\ e2.wver = e2.rver + 1

\* C4: two POST /api/visitas handled one after the other, without backend
\* error, from a stored total N answer N+1 and N+2 and leave N+2 stored; an
\* increment that read no record inserts one with total 1 and answers 1.
C4_TwoInSequence ==
    /\ (Len(log) = 2 /\ log[1].had_row /\ Sequential(log[1], log[2]))
        => /\ log[1].total = log[1].before + 1
           /\ log[2].total = log[1].before + 2
           /\ ver = log[2].wver
                => visit_total(db["visitas"]) = log[1].before + 2
    /\ \A i \in 1..Len(log) :
         ~log[i].had_row
            => /\ log[i].total = 1
               /\ log[i].status = 201
               /\ (i = Len(log) /\ ver = log[i].wver)
                    => db["visitas"][Len(db["visitas"])].data.total = 1

C4_Witness ==
    /\ Len(log) = 2
    /\ log[1].had_row
    /\ log[1].before = 2
    /\ Sequential(log[1], log[2])
    /\ ver = log[2].wver
    /\ visit_total(db["visitas"]) = 4

\* C5: when two POST /api/visitas both read the stored total N before
\* either writes, both succeed and answer N+1, and the stored total after
\* the second write is N+1: one update is lost.
C5_LostUpdate ==
    (Len(log) = 2 /\ log[1].had_row /\ log[2].had_row
        /\ log[1].rver = log[2].rver)
    => /\ log[1].status = 200 /\ log[2].status = 200
       /\ log[1].total = log[1].before + 1
       /\ log[2].total = log[1].before + 1
       /\ ver = log[2].wver => visit_total(db["visitas"]) = log[1].before + 1

C5_Witness ==
    /\ Len(log) = 2
    /\ log[1].had_row /\ log[2].had_row
    /\ log[1].rver = log[2].rver
    /\ log[1].worker # log[2].worker
    /\ ver = log[2].wver
    /\ visit_total(db["visitas"]) = log[1].before + 1

\* C6 as stated: the stored visit total never decreases, and the total a
\* POST /api/visitas answers is at least every total a GET /api/visitas
\* answered before that POST started.
C6_NeverDecreases ==
    [][/\ visit_total(db'["visitas"]) >= visit_total(db["visitas"])
       /\ log' # log => log'[Len(log')].total >= log'[Len(log')].seen]_vars

---------------------------------------------------------------------------
LoginPost(l, app, s) ==
    /\ l.req.app = app
    /\ l.req.handler = IF app = "app" THEN "index" ELSE "login"
    /\ l.req.method = "POST"
    /\ l.req.sid = s

SecretGiven(l) ==
    l.req.password.present /\ l.req.password.value = ADMIN_PASSWORD

\* C7 as stated: a login POST with the admin secret sets the session flag,
\* every later request of that session is treated as authenticated, and a
\* login POST with a missing or wrong password never sets the flag.
C7_EverySubsequentRequest ==
    [][\A s \in Sessions :
         /\ (LoginPost(last', "app", s) /\ SecretGiven(last'))
                => "logged_in" \in session'[s]
         /\ "logged_in" \in session[s] => "logged_in" \in session'[s]
         /\ ("logged_in" \in session[s] /\ last'.req.app = "app"
                /\ last'.req.sid = s
                /\ last'.req.handler \in Mutating \cup {"admin_dashboard"})
                => last'.invoked
         /\ (LoginPost(last', "app", s) /\ ~SecretGiven(last'))
                => session'[s] = session[s]]_vars

\* C7, amended: a login POST with the admin secret sets the session flag; the
\* flag stays set until that session logs out; while it is set the
\* session-protected page (GET /admin of app.py, the login_required routes of
\* admin.py) is served without the secret; the flag is set by nothing but such
\* a login; and the bearer-protected endpoints of app.py ignore the session.
C7_SessionLogin ==
    [][\A s \in Sessions :
         /\ (LoginPost(last', "app", s) /\ SecretGiven(last'))
                => "logged_in" \in session'[s]
         /\ (LoginPost(last', "admin", s) /\ SecretGiven(last'))
                => "authenticated" \in admin_session'[s]
         /\ ("logged_in" \in session[s] /\ "logged_in" \notin session'[s])
                => (last'.req.handler = "admin_logout" /\ last'.req.sid = s)
         /\ ("authenticated" \in admin_session[s]
                /\ "authenticated" \notin admin_session'[s])
                => (last'.req.handler = "logout" /\ last'.req.sid = s)
         /\ (last'.req.handler = "admin_dashboard" /\ last'.req.sid = s)
                => last'.invoked =
                     IF last'.req.app = "app" THEN "logged_in" \in session[s]
                     ELSE "authenticated" \in admin_session[s]
         /\ ("logged_in" \notin session[s] /\ "logged_in" \in session'[s])
                => (LoginPost(last', "app", s) /\ SecretGiven(last'))
         /\ ("authenticated" \notin admin_session[s]
                /\ "authenticated" \in admin_session'[s])
                => (LoginPost(last', "admin", s) /\ SecretGiven(last'))
         /\ (last'.req.handler \in Mutating /\ last'.req.sid = s)
                => last'.invoked = Matching(last'.req.hdr)]_vars

C7_Witness ==
    /\ last.req.app = "app"
    /\ last.req.handler = "admin_dashboard"
    /\ last.invoked
    /\ last.resp.status = 200

---------------------------------------------------------------------------
---------------------------------------------------------------------------
AuthFailure(l) ==
    l.req.app = "app" /\ l.req.handler \in Mutating /\ ~Matching(l.req.hdr)

MissingFieldCase(l) ==
    l.req.handler \in Creates /\ Matching(l.req.hdr) /\ MissingField(l.req)

NotFoundCase(l) ==
    /\ l.req.app = "app"
    /\ ~l.raised
    /\ \/ l.req.handler \in Gets
       \/ l.req.handler \in Updates /\ Matching(l.req.hdr)
    /\ Absent(TableOf(l.req.handler), l.req.id)

RejectedLogin(l) ==
    /\ l.req.handler \in {"index", "login"}
    /\ l.req.method = "POST"
    /\ ~SecretGiven(l)

OtherError(l) ==
    \/ AuthFailure(l)
    \/ MissingFieldCase(l)
    \/ NotFoundCase(l)
    \/ l.raised
    \/ l.req.handler = "not_found"

C10_BackendFailure ==
    [][(last'.raised /\ last'.calls > 0)
          => /\ last'.resp.status = 500
             /\ IsJsonError(last')
             /\ db' = db /\ next_id' = next_id /\ ver' = ver
             /\ last'.calls = IF /\ last'.req.handler = "increment_visits"
                                 /\ proc[last'.req.worker].pc = "read"
                              THEN 2 ELSE 1
             /\ last'.req.handler = "increment_visits"
                  => proc'[last'.req.worker] = Idle]_vars

C10_Witness ==
    /\ last.req.handler = "increment_visits"
    /\ last.raised
    /\ last.calls = 2
    /\ last.resp.status = 500
    /\ visit_total(db["visitas"]) = 1

---------------------------------------------------------------------------
\* C11: when the backend raises nothing, a POST /api/projetos with the
\* matching bearer credential and a JSON object holding titulo, descricao and
\* tecnologias is answered 201 with the record, and appends exactly one
\* record to the projects: it holds every field of the payload but created_at
\* with the payload's value, and a created_at stamped by the server, whatever
\* created_at the client sent; no other record and no certificate changes.
C11_CreateProject ==
    [][(/\ last'.req.app = "app"
        /\ last'.req.handler = "create_project"
        /\ Matching(last'.req.hdr)
        /\ last'.req.payload.is_object
        /\ ProjectFields \subseteq DOMAIN last'.req.payload.obj
        /\ ~last'.raised)
       => LET obj == last'.req.payload.obj
              before == db["projetos"]
              after == db'["projetos"]
          IN /\ last'.resp.status = 201
             /\ Len(after) = Len(before) + 1
             /\ SubSeq(after, 1, Len(before)) = before
             /\ db'["certificados"] = db["certificados"]
             /\ db'["visitas"] = db["visitas"]
             /\ DOMAIN after[Len(after)].data = DOMAIN obj \cup {"created_at"}
             /\ \A k \in DOMAIN obj \ {"created_at"} :
                    after[Len(after)].data[k] = obj[k]
             /\ after[Len(after)].data["created_at"] \in Timestamps
             /\ last'.resp.body.rows = <<after[Len(after)]>>]_vars

\* A project was created from a payload that carried a created_at of its own
\* and a field beyond the required ones
C11_Witness ==
    /\ last.req.handler = "create_project"
    /\ last.resp.status = 201
    /\ {"created_at", "link"} \subseteq DOMAIN last.req.payload.obj
    /\ db["projetos"] # <<>>
    /\ LET row == db["projetos"][Len(db["projetos"])]
       IN /\ row.data["created_at"] # last.req.payload.obj["created_at"]
          /\ row.data["link"] = last.req.payload.obj["link"]
          /\ last.resp.body.rows = <<row>>

---------------------------------------------------------------------------
\* The rows of the certificates whose origem is v, in the order stored
WithOrigem(v) ==
    LET Is(r) == "origem" \in DOMAIN r.data /\ r.data["origem"] = v
    IN SelectSeq(db["certificados"], Is)

CertificatesListed ==
    /\ last.req.app = "app"
    /\ last.req.handler = "get_certificates"
    /\ ~last.raised

\* C12 as stated: whatever value the origem parameter of GET
\* /api/certificados carries, the answer is 200 with an array whose elements
\* all have that origem; without the parameter it is the array of all the
\* certificates.
C12_AnyValue ==
    CertificatesListed
    => /\ last.resp.status = 200
       /\ last.resp.body.kind = "json_array"
       /\ last.req.origem.present
            => \A i \in 1..Len(last.resp.body.rows) :
                  /\ "origem" \in DOMAIN last.resp.body.rows[i].data
                  /\ last.resp.body.rows[i].data["origem"] = last.req.origem.value
       /\ ~last.req.origem.present
            => last.resp.body.rows = db["certificados"]

\* C12, amended: when the backend raises nothing, GET /api/certificados with
\* a non-empty origem parameter is answered 200 with the array of exactly the
\* certificates whose origem equals it; without the parameter, or with an
\* empty one, it is answered 200 with the array of all the certificates.
C12_Filter ==
    CertificatesListed
    => /\ last.resp.status = 200
       /\ last.resp.body.kind = "json_array"
       /\ (last.req.origem.present /\ last.req.origem.value # "")
            => /\ last.resp.body.rows = WithOrigem(last.req.origem.value)
               /\ \A i \in 1..Len(last.resp.body.rows) :
                     last.resp.body.rows[i].data["origem"] = last.req.origem.value
       /\ (~last.req.origem.present \/ last.req.origem.value = "")
            => last.resp.body.rows = db["certificados"]

\* A filtered list that holds a certificate and leaves another one out
C12_Witness ==
    /\ CertificatesListed
    /\ last.req.origem = Arg("FIAP")
    /\ last.resp.body.rows # <<>>
    /\ Len(last.resp.body.rows) < Len(db["certificados"])

---------------------------------------------------------------------------
\* C13: when the backend raises nothing, a DELETE of /api/projetos/<id> or
\* /api/certificados/<id> with the matching credential is answered 200 with a
\* message whether or not the table holds a record with that id; it removes
\* the records with that id and no other, so that none with that id is left;
\* and when the table held none, as after a first DELETE, the store stays as
\* it was.
C13_Delete ==
    [][(/\ last'.req.app = "app"
        /\ last'.req.handler \in Deletes
        /\ Matching(last'.req.hdr)
        /\ ~last'.raised)
       => LET t == TableOf(last'.req.handler)
              id == last'.req.id
              Other(r) == r.id # id
          IN /\ last'.resp.status = 200
             /\ last'.resp.body.kind = "json_object"
             /\ "message" \in last'.resp.body.keys
             /\ db'[t] = SelectSeq(db[t], Other)
             /\ \A u \in Tables \ {t} : db'[u] = db[u]
             /\ \A i \in 1..Len(db'[t]) : db'[t][i].id # id
             /\ Absent(t, id) => db' = db]_vars

\* A DELETE answered 200 for an id that was given to a record and that no
\* record has any more, while the other record of the table is still there
C13_Witness ==
    /\ last.req.app = "app"
    /\ last.req.handler \in Deletes
    /\ last.resp.status = 200
    /\ last.req.id < next_id[TableOf(last.req.handler)]
    /\ Absent(TableOf(last.req.handler), last.req.id)
    /\ Len(db[TableOf(last.req.handler)]) = 1

---------------------------------------------------------------------------
\* C14: table visitas holds at most one record in every reachable state,
\* whatever the increments and however they interleave.
C14_Singleton == Len(db["visitas"]) <= 1

---------------------------------------------------------------------------
\* The session flag of application a is set in session s
Flagged(a, s) ==
    IF a = "app" THEN "logged_in" \in session[s]
    ELSE "authenticated" \in admin_session[s]

\* The step answers a POST /admin/logout of session s in application a
LogoutPost(l, a, s) ==
    /\ l.req.app = a
    /\ l.req.handler = IF a = "app" THEN "admin_logout" ELSE "logout"
    /\ l.req.sid = s

\* C15: a POST /admin/logout is answered with the redirect to the login page
\* and leaves the session without the flag, whether or not it had it; from a
\* logout of a logged-in session until a login POST of that session with the
\* admin secret, the flag stays off and every request of the session for the
\* session-protected page is redirected to the login page, not served.
C15_LogoutRevokes ==
    [][\A a \in {"app", "admin"}, s \in Sessions :
         /\ LogoutPost(last', a, s)
              => /\ last'.resp.status = 302
                 /\ last'.resp.body.location = IF a = "app" THEN "index" ELSE "login"
                 /\ IF a = "app" THEN "logged_in" \notin session'[s]
                    ELSE "authenticated" \notin admin_session'[s]
                 /\ Flagged(a, s) => s \in logged_out'[a]
                 /\ ~Flagged(a, s)
                      => (session'[s] = session[s]
                            /\ admin_session'[s] = admin_session[s])
         /\ s \in logged_out[a]
              => /\ ~Flagged(a, s)
                 /\ (last'.req.app = a /\ last'.req.handler = "admin_dashboard"
                        /\ last'.req.sid = s)
                      => /\ ~last'.invoked
                         /\ last'.resp.status = 302
                         /\ last'.resp.body.location =
                               IF a = "app" THEN "index" ELSE "login"
                 /\ s \notin logged_out'[a]
                      => (LoginPost(last', a, s) /\ SecretGiven(last'))]_vars

\* The dashboard was asked for in a session that had logged in and then out,
\* and the answer was the redirect to the login page
C15_Witness ==
    /\ last.req.handler = "admin_dashboard"
    /\ last.req.sid \in logged_out[last.req.app]
    /\ ~last.invoked
    /\ last.resp.status = 302

====
